---- MODULE Spec2Model ----
(***************************************************************************)
(* The three Builder variants of src/creational/Builder.cpp (classic       *)
(* fluent C++17, constexpr-friendly C++20, deducing-this C++23), applied   *)
(* to the Pizza product.                                                   *)
(*                                                                         *)
(* A std::vector owns a buffer: the model keeps the buffers in `heap` and  *)
(* a Specs record holds the address of its toppings buffer, so that a copy *)
(* of a Specs is a new buffer and sharing a buffer is something the model  *)
(* can tell from copying it.  Crust and topping texts are the string       *)
(* literals the callers pass (static storage).                             *)
(***************************************************************************)
EXTENDS Integers, Sequences, FiniteSets, TLC

VARIABLES variant, heap, builders, products, builds, call

vars == <<variant, heap, builders, products, builds, call>>

(* ------------------------------ bounds -------------------------------- *)
MaxCalls == 4       \* calls made on the Builder of a C++17 or C++20 run
MaxChained == 3     \* calls made on the Builders of a C++23 run

Variants == {"cpp17", "cpp20", "cpp23"}
Crusts == {"", "Pan", "Roman"}
Sizes == {19, 40, 90}
ToppingNames == {"A", "B"}
ToppingRanges == {<< >>, <<"X">>, <<"Ham", "Pineapple">>}

(* --------------------------- program constants ------------------------ *)
DefaultSize == 32
RangeMin == 20
RangeMax == 60
CrustRequired == "Crust type required!"

(* ------------------------------ Specs --------------------------------- *)
\* Specs without the default member initialiser of size_cm
Specs_zero(a) == [crust |-> "", size_cm |-> 0, toppings |-> a]

\* struct Specs, default member initialisers; the vector's buffer is heap[a]
Specs(a) == [crust |-> "", size_cm |-> DefaultSize, toppings |-> a]

Cell(v) == [live |-> TRUE, data |-> v]

\* an insert at the front in place of push_back
push_front(v, t) == << t >> \o v

\* std::vector::push_back
push_back(v, t) == Append(v, t)

\* an insert at the end in place of assign: the old elements stay
assign_append(v, r) == v \o r

\* std::vector::assign(first, last)
assign(v, r) == r

\* a crust that is set only while it is empty
set_crust_once(s, c) == IF s.crust = "" THEN [s EXCEPT !.crust = c] ELSE s

\* specs_.crust = c
set_crust(s, c) == [s EXCEPT !.crust = c]

\* specs_.size_cm = cm
set_size(s, cm) == [s EXCEPT !.size_cm = cm]

\* a copy that shares the vector's buffer
SpecsCopy_shallow(s, h) == [specs |-> s, heap |-> h]

\* the implicit copy constructor of Specs: the vector is copied into a new
\* buffer
SpecsCopy(s, h) ==
    [specs |-> [s EXCEPT !.toppings = Len(h) + 1],
     heap  |-> Append(h, Cell(h[s.toppings].data))]

\* a Pizza that keeps the Builder's Specs by reference
Pizza_ref(s, h) == [specs |-> s, heap |-> h]

\* Pizza(const Specs& s) : specs_{s}
Pizza(s, h) == SpecsCopy(s, h)

\* an explicit object parameter taken by reference (this Builder& self)
ExplicitObject_ref(s, h) == [specs |-> s, heap |-> h]

\* a by-value explicit object parameter (this Builder self): a copy of the
\* Builder the call is made on
ExplicitObject(s, h) == SpecsCopy(s, h)

\* the destructor of a Specs releases the vector's buffer
Release(h, a) == [h EXCEPT ![a].live = FALSE]

\* const Specs& specs() const, read through the buffers h: what a reader of
\* the Specs s sees.  The buffer of a Specs that is in use is live in every
\* reachable state; Released marks a read that would be of a freed buffer
Released == << "(released)" >>
specs(s, h) ==
    [crust |-> s.crust, size_cm |-> s.size_cm,
     toppings |-> IF h[s.toppings].live THEN h[s.toppings].data ELSE Released]

\* concept InRange<Min, Max> = requires(int v) { (v >= Min && v <= Max); }
\* a simple requirement asks only that the expression is well-formed; it is
\* never evaluated, so the concept is satisfied whatever Min and Max are
InRange(Min, Max, v) == (v >= Min /\ v <= Max) \in BOOLEAN

(* ------------------------- recorded calls ----------------------------- *)
Op(o, c, n, r) == [op |-> o, c |-> c, n |-> n, r |-> r]
NoCall == [op |-> "none", self |-> 0, ret |-> 0, c |-> "", n |-> 0, r |-> << >>]

Call(o, self, ret) ==
    [op |-> o.op, self |-> self, ret |-> ret, c |-> o.c, n |-> o.n, r |-> o.r]

Builder(s, h) == [specs |-> s, alive |-> TRUE, hist |-> h]

Init ==
    /\ variant \in Variants
    /\ heap = << Cell(<< >>) >>
    /\ builders = << Builder(Specs(1), << >>) >>
    /\ products = << >>
    /\ builds = << >>
    /\ call = NoCall

\* the calls made so far: every configuration call of C++17 and C++20 is in
\* the one Builder's hist, every one of C++23 returned a new Builder
Calls ==
    IF variant = "cpp23" THEN Len(builders) - 1 + Len(builds)
    ELSE Len(builders[1].hist) + Len(builds)

CanCall(i) ==
    /\ i \in DOMAIN builders
    /\ builders[i].alive
    /\ Calls < (IF variant = "cpp23" THEN MaxChained ELSE MaxCalls)

(* -------------------- in-place Builders (C++17, C++20) ---------------- *)
\* updates builders[i] in place and returns *this
InPlace(i, s, o) ==
    /\ builders' = [builders EXCEPT ![i].specs = s,
                                    ![i].hist = Append(@, o)]
    /\ call' = Call(o, i, i)
    /\ UNCHANGED <<variant, products, builds>>

\* Builder& crust(std::string c) / Builder& crust(std::string_view c)
crust(i, c) ==
    /\ variant \in {"cpp17", "cpp20"}
    /\ CanCall(i)
    /\ InPlace(i, set_crust(builders[i].specs, c), Op("crust", c, 0, << >>))
    /\ UNCHANGED heap

\* Builder& size(int cm)
size(i, cm) ==
    /\ variant = "cpp17"
    /\ CanCall(i)
    /\ InPlace(i, set_size(builders[i].specs, cm), Op("size", "", cm, << >>))
    /\ UNCHANGED heap

\* template<InRange<20, 60> Size> Builder& size(Size cm)
size20(i, cm) ==
    /\ variant = "cpp20"
    /\ CanCall(i)
    /\ InRange(RangeMin, RangeMax, cm)
    /\ InPlace(i, set_size(builders[i].specs, cm), Op("size", "", cm, << >>))
    /\ UNCHANGED heap

\* Builder& addTopping(std::string t)
addTopping(i, t) ==
    /\ variant = "cpp17"
    /\ CanCall(i)
    /\ heap' = [heap EXCEPT ![builders[i].specs.toppings].data = push_back(@, t)]
    /\ InPlace(i, builders[i].specs, Op("add", t, 0, << >>))

\* Builder& toppings(R&& range)
toppings(i, r) ==
    /\ variant = "cpp20"
    /\ CanCall(i)
    /\ heap' = [heap EXCEPT ![builders[i].specs.toppings].data = assign(@, r)]
    /\ InPlace(i, builders[i].specs, Op("toppings", "", 0, r))

\* Pizza build() const { return Pizza{specs_}; }
build(i) ==
    /\ variant \in {"cpp17", "cpp20"}
    /\ CanCall(i)
    /\ LET p == Pizza(builders[i].specs, heap) IN
         /\ heap' = p.heap
         /\ products' = Append(products, [specs |-> p.specs])
         /\ builds' = Append(builds, [hist |-> builders[i].hist, self |-> i,
                                      err |-> "", pizza |-> Len(products) + 1])
    /\ call' = Call(Op("build", "", 0, << >>), i, i)
    /\ UNCHANGED <<variant, builders>>

(* ------------------- value-semantic Builder (C++23) ------------------- *)
\* the returned Builder: self, moved into the return object, as a new
\* Builder value; the Builder the call was made on is left as it is
Returned(i, s, h, o) ==
    /\ heap' = h
    /\ builders' = Append(builders, Builder(s, Append(builders[i].hist, o)))
    /\ call' = Call(o, i, Len(builders) + 1)
    /\ UNCHANGED <<variant, products, builds>>

\* auto crust(this Builder self, std::string_view c)
crust23(i, c) ==
    /\ variant = "cpp23"
    /\ CanCall(i)
    /\ LET self == ExplicitObject(builders[i].specs, heap) IN
         Returned(i, set_crust(self.specs, c), self.heap,
                  Op("crust", c, 0, << >>))

\* auto size(this Builder self, int cm)
size23(i, cm) ==
    /\ variant = "cpp23"
    /\ CanCall(i)
    /\ LET self == ExplicitObject(builders[i].specs, heap) IN
         Returned(i, set_size(self.specs, cm), self.heap,
                  Op("size", "", cm, << >>))

\* auto add(this Builder self, std::string_view topping)
add(i, t) ==
    /\ variant = "cpp23"
    /\ CanCall(i)
    /\ LET self == ExplicitObject(builders[i].specs, heap) IN
         Returned(i, self.specs,
                  [self.heap EXCEPT ![self.specs.toppings].data = push_back(@, t)],
                  Op("add", t, 0, << >>))

\* self.specs_.crust.empty()
empty(c) == c = ""

\* consteval Pizza build(this const Builder self): self is a copy, released
\* when the call ends, by return or by the throw
build23(i) ==
    /\ variant = "cpp23"
    /\ CanCall(i)
    /\ LET self == ExplicitObject(builders[i].specs, heap) IN
         IF empty(self.specs.crust)
         THEN /\ heap' = Release(self.heap, self.specs.toppings)
              /\ products' = products
              /\ builds' = Append(builds, [hist |-> builders[i].hist, self |-> i,
                                           err |-> CrustRequired, pizza |-> 0])
         ELSE LET p == Pizza(self.specs, self.heap) IN
              /\ heap' = Release(p.heap, self.specs.toppings)
              /\ products' = Append(products, [specs |-> p.specs])
              /\ builds' = Append(builds, [hist |-> builders[i].hist, self |-> i,
                                           err |-> "", pizza |-> Len(products) + 1])
    /\ call' = Call(Op("build", "", 0, << >>), i, i)
    /\ UNCHANGED <<variant, builders>>

(* ----------------------------- lifetime ------------------------------- *)
RECURSIVE ReleaseAll(_, _)
\* the buffers of the addresses in as, released one after the other
ReleaseAll(h, as) ==
    IF as = {} THEN h
    ELSE LET a == CHOOSE x \in as : TRUE IN ReleaseAll(Release(h, a), as \ {a})

\* the end of the full-expression that holds the chain: every Builder of the
\* chain is a temporary, and the implicit ~Builder() of each releases the
\* buffer of its Specs; the Pizza outlives them
destroy ==
    /\ \E i \in DOMAIN builders : builders[i].alive
    /\ heap' = ReleaseAll(heap, {builders[i].specs.toppings : i \in DOMAIN builders})
    /\ builders' = [i \in DOMAIN builders |-> [builders[i] EXCEPT !.alive = FALSE]]
    /\ call' = Call(Op("destroy", "", 0, << >>), 0, 0)
    /\ UNCHANGED <<variant, products, builds>>

Next ==
    \/ \E i \in DOMAIN builders, c \in Crusts : crust(i, c)
    \/ \E i \in DOMAIN builders, cm \in Sizes : size(i, cm)
    \/ \E i \in DOMAIN builders, cm \in Sizes : size20(i, cm)
    \/ \E i \in DOMAIN builders, t \in ToppingNames : addTopping(i, t)
    \/ \E i \in DOMAIN builders, r \in ToppingRanges : toppings(i, r)
    \/ \E i \in DOMAIN builders : build(i)
    \/ \E i \in DOMAIN builders, c \in Crusts : crust23(i, c)
    \/ \E i \in DOMAIN builders, cm \in Sizes : size23(i, cm)
    \/ \E i \in DOMAIN builders, t \in ToppingNames : add(i, t)
    \/ \E i \in DOMAIN builders : build23(i)
    \/ destroy

Spec == Init /\ [][Next]_vars

(* ===================================================================== *)
(* What the recorded calls of a chain ask for                           *)
(* ===================================================================== *)
HasOp(h, o) == \E k \in DOMAIN h : h[k].op = o

LastOf(h, o) ==
    h[CHOOSE k \in DOMAIN h :
        h[k].op = o /\ \A j \in DOMAIN h : j > k => h[j].op # o]

IsAdd(x) == x.op = "add"

\* the arguments of the add calls of h, in call order
Adds(h) ==
    LET sel == SelectSeq(h, IsAdd) IN [k \in 1..Len(sel) |-> sel[k].c]

RECURSIVE Accumulated(_)
\* the toppings the topping calls of h accumulate
Accumulated(h) ==
    IF h = << >> THEN << >>
    ELSE LET x == h[Len(h)]
             rest == SubSeq(h, 1, Len(h) - 1)
         IN  IF x.op = "add" THEN Append(Accumulated(rest), x.c)
             ELSE IF x.op = "toppings" THEN x.r
             ELSE Accumulated(rest)

ConfigOps == {"crust", "size", "add", "toppings"}
Built(k) == builds[k].err = "" /\ builds[k].pizza \in DOMAIN products
ViewOf(k) == specs(products[builds[k].pizza].specs, heap)

(* ------------------------------- C1 ----------------------------------- *)
\* C1: every build() of a chain whose last crust call gave a non-empty crust
\* and whose last size call (if any) gave a size in [20,60] succeeds, and the
\* Pizza's view has the crust of the last crust call, the size of the last
\* size call and the toppings the topping calls accumulated, in order.
C1_LastSetValues ==
    \A k \in DOMAIN builds :
      LET h == builds[k].hist IN
        ( /\ HasOp(h, "crust") /\ LastOf(h, "crust").c # ""
          /\ HasOp(h, "size") => LastOf(h, "size").n \in RangeMin..RangeMax )
        => /\ Built(k)
           /\ ViewOf(k).crust = LastOf(h, "crust").c
           /\ HasOp(h, "size") => ViewOf(k).size_cm = LastOf(h, "size").n
           /\ ViewOf(k).toppings = Accumulated(h)

\* a chain crust, crust, size (two crust calls, the last one decides) built
C1_Witness ==
    \E k \in DOMAIN builds :
      /\ Built(k)
      /\ Len(SelectSeq(builds[k].hist, LAMBDA x : x.op = "crust")) = 2
      /\ HasOp(builds[k].hist, "size")
      /\ ViewOf(k).crust = "Roman" /\ ViewOf(k).size_cm = 40

(* ------------------------------- C2 ----------------------------------- *)
\* C2: every build() of a chain with no crust call fails with the missing
\* required field error, and no Pizza is produced.
C2_NoCrustFails ==
    \A k \in DOMAIN builds :
      ~HasOp(builds[k].hist, "crust")
        => builds[k].err = CrustRequired /\ builds[k].pizza = 0

(* ------------------------------- C3 ----------------------------------- *)
\* C3: every Pizza that exists has a non-empty crust.
C3_ProductValid ==
    \A p \in DOMAIN products : specs(products[p].specs, heap).crust # ""

(* ------------------------------- C4 ----------------------------------- *)
\* C4: in the C++20 (strict-size) variant no Pizza has a size outside
\* [20, 60].
C4_StrictSize ==
    variant = "cpp20" =>
      \A k \in DOMAIN builds :
        (Built(k) /\ HasOp(builds[k].hist, "size"))
          => ViewOf(k).size_cm \in RangeMin..RangeMax
(* ------------------------------- C5 ----------------------------------- *)
\* C5: an add call (addTopping, add) leaves the Builder it returns with the
\* toppings of the Builder it was made on plus the one new element at the
\* end, earlier elements unchanged; and the Pizza of a chain whose topping
\* calls are add calls t1..tn has exactly the toppings [t1,..,tn], in call
\* order, duplicates kept.
C5_AddStep ==
    call'.op = "add" =>
      specs(builders'[call'.ret].specs, heap').toppings
        = Append(specs(builders[call'.self].specs, heap).toppings, call'.c)

C5_AddOrder ==
    \A k \in DOMAIN builds :
      (Built(k) /\ ~HasOp(builds[k].hist, "toppings"))
        => ViewOf(k).toppings = Adds(builds[k].hist)

C5_AddAppends == [][C5_AddStep]_vars /\ []C5_AddOrder

\* a Pizza with a crust built after add("A"), add("B")
C5_Witness ==
    \E k \in DOMAIN builds :
      /\ Built(k)
      /\ Adds(builds[k].hist) = << "A", "B" >>
      /\ ViewOf(k).toppings = << "A", "B" >>

(* ------------------------------- C6 ----------------------------------- *)
\* C6: toppings(S) leaves the Builder with exactly S, whatever it held
\* before, and a second toppings(S) right after the first leaves the
\* Builder's Specs as the first left them.
C6_AssignStep ==
    call'.op = "toppings" =>
      /\ specs(builders'[call'.ret].specs, heap').toppings = call'.r
      /\ (call.op = "toppings" /\ call.r = call'.r /\ call.self = call'.self)
           => specs(builders'[call'.ret].specs, heap')
                = specs(builders[call'.self].specs, heap)

C6_Overwrite == [][C6_AssignStep]_vars

\* toppings(["X"]) made on a Builder that held ["Ham","Pineapple"]
C6_Witness ==
    /\ call.op = "toppings" /\ call.r = << "X" >>
    /\ Len(builders[call.self].hist) >= 2
    /\ builders[call.self].hist[Len(builders[call.self].hist) - 1].r
         = << "Ham", "Pineapple" >>
    /\ specs(builders[call.self].specs, heap).toppings = << "X" >>

(* ------------------------------- C7 ----------------------------------- *)
\* C7: build() leaves the Builder and what it holds unchanged, and two
\* build() calls on one Builder with no configuration call between them give
\* two Pizzas with equal views whose toppings are in two different live
\* buffers, neither of them a buffer of a Builder.
C7_BuildStep ==
    call'.op = "build" =>
      /\ builders' = builders
      /\ \A i \in DOMAIN builders :
           specs(builders[i].specs, heap') = specs(builders[i].specs, heap)

C7_TwoBuilds ==
    \A j, k \in DOMAIN builds :
      (j < k /\ Built(j) /\ Built(k) /\ builds[j].self = builds[k].self
         /\ builds[j].hist = builds[k].hist)
        => /\ ViewOf(j) = ViewOf(k)
           /\ products[builds[j].pizza].specs.toppings
                # products[builds[k].pizza].specs.toppings
           /\ \A x \in {builds[j].pizza, builds[k].pizza} :
                /\ heap[products[x].specs.toppings].live
                /\ \A i \in DOMAIN builders :
                     builders[i].specs.toppings # products[x].specs.toppings

C7_BuildSnapshot == [][C7_BuildStep]_vars /\ []C7_TwoBuilds

\* two Pizzas built one after the other from a Builder that holds a topping
C7_Witness ==
    \E j, k \in DOMAIN builds :
      /\ j < k /\ Built(j) /\ Built(k)
      /\ builds[j].self = builds[k].self /\ builds[j].hist = builds[k].hist
      /\ Len(ViewOf(j).toppings) > 0

(* ------------------------------- C8 ----------------------------------- *)
\* C8: no step (a configuration call on any Builder, a build(), the
\* destruction of the Builders) changes the view of a Pizza that exists.
C8_ProductStep ==
    \A p \in DOMAIN products :
      /\ p \in DOMAIN products'
      /\ specs(products'[p].specs, heap') = specs(products[p].specs, heap)
      /\ heap'[products'[p].specs.toppings].live

C8_ProductFrozen == [][C8_ProductStep]_vars

\* a Pizza with a topping whose Builder got a later configuration call and
\* was then destroyed
C8_Witness ==
    \E k \in DOMAIN builds :
      /\ Built(k)
      /\ ~builders[builds[k].self].alive
      /\ Len(builders[builds[k].self].hist) > Len(builds[k].hist)
      /\ Len(ViewOf(k).toppings) > 0

(* ------------------------------- C9 ----------------------------------- *)
\* C9: in the C++23 variant a configuration call returns a new Builder that
\* is the Builder it was made on with the one field updated, in a buffer of
\* its own, and leaves every Builder that existed as it was; so every
\* Builder, and every Pizza, shows the calls of its own chain only.
FieldUpdate(v, c) ==
    IF c.op = "crust" THEN [v EXCEPT !.crust = c.c]
    ELSE IF c.op = "size" THEN [v EXCEPT !.size_cm = c.n]
    ELSE [v EXCEPT !.toppings = Append(@, c.c)]

OwnChain(h) ==
    [crust |-> IF HasOp(h, "crust") THEN LastOf(h, "crust").c ELSE "",
     size_cm |-> IF HasOp(h, "size") THEN LastOf(h, "size").n ELSE DefaultSize,
     toppings |-> Adds(h)]

C9_ValueStep ==
    (variant = "cpp23" /\ call'.op \in ConfigOps) =>
      /\ call'.ret \notin DOMAIN builders
      /\ \A i \in DOMAIN builders :
           /\ builders'[i] = builders[i]
           /\ specs(builders[i].specs, heap') = specs(builders[i].specs, heap)
           /\ builders'[call'.ret].specs.toppings # builders[i].specs.toppings
      /\ specs(builders'[call'.ret].specs, heap')
           = FieldUpdate(specs(builders[call'.self].specs, heap), call')

C9_OwnChainOnly ==
    variant = "cpp23" =>
      /\ \A i \in DOMAIN builders :
           builders[i].alive
             => specs(builders[i].specs, heap) = OwnChain(builders[i].hist)
      /\ \A k \in DOMAIN builds :
           Built(k) => ViewOf(k) = OwnChain(builds[k].hist)

C9_ValueSemantics == [][C9_ValueStep]_vars /\ []C9_OwnChainOnly

\* two chains continued from the fresh Builder, one with a topping, the
\* other built
C9_Witness ==
    /\ variant = "cpp23"
    /\ \E i, j \in DOMAIN builders :
         /\ i # j
         /\ Len(builders[i].hist) = 1 /\ Len(builders[j].hist) = 1
         /\ builders[i].hist[1].op = "add" /\ builders[j].hist[1].op = "crust"
         /\ \E k \in DOMAIN builds : Built(k) /\ builds[k].self = j

(* ------------------------------- C10 ---------------------------------- *)
\* C10: a Builder no call was made on holds crust "", size 32 and no
\* toppings; a configuration call changes only its own field; so a Pizza of
\* a chain with no size call has size 32 and one of a chain with no topping
\* call has no toppings.
C10_Fresh ==
    /\ \A i \in DOMAIN builders :
         (builders[i].alive /\ builders[i].hist = << >>)
           => specs(builders[i].specs, heap)
                = [crust |-> "", size_cm |-> 32, toppings |-> << >>]
    /\ \A k \in DOMAIN builds :
         Built(k) =>
           /\ ~HasOp(builds[k].hist, "size") => ViewOf(k).size_cm = 32
           /\ (~HasOp(builds[k].hist, "add") /\ ~HasOp(builds[k].hist, "toppings"))
                => ViewOf(k).toppings = << >>

C10_OwnField ==
    call'.op \in ConfigOps =>
      LET old == specs(builders[call'.self].specs, heap)
          new == specs(builders'[call'.ret].specs, heap')
      IN  /\ call'.op # "crust" => new.crust = old.crust
          /\ call'.op # "size" => new.size_cm = old.size_cm
          /\ call'.op \notin {"add", "toppings"} => new.toppings = old.toppings

C10_Defaults == []C10_Fresh /\ [][C10_OwnField]_vars

\* a Pizza of a chain of crust calls only
C10_Witness ==
    \E k \in DOMAIN builds :
      /\ Built(k)
      /\ \A x \in DOMAIN builds[k].hist : builds[k].hist[x].op = "crust"
      /\ ViewOf(k) = [crust |-> "Pan", size_cm |-> 32, toppings |-> << >>]
====
